---- MODULE Spec2Model ----
(***************************************************************************)
(* fkie-cve-make-release: the command line entry procedure `cli` of        *)
(* fkie_cve_make_release/__main__.py, its helper _write_all_feeds and the  *)
(* feed-name validation _feed_name_is_valid.                               *)
(*                                                                         *)
(* Strings are sequences of one-character strings, so that int(name) and   *)
(* str(year) are computed character by character.  An optional value       *)
(* (Python's None or a value) is the empty sequence or a one-element       *)
(* sequence.  Every call of an external collaborator (Path.mkdir,          *)
(* repo.fetch, repo.checkout, CveDatabase.from_timestamp, Feed.write) is   *)
(* appended to the history variable `calls` with its arguments and         *)
(* whether it returned or raised.                                          *)
(***************************************************************************)
EXTENDS Integers, Sequences, FiniteSets

(* ------------------------------ bounds -------------------------------- *)

\* Years modelled before the first feed year (dates --date accepts).
YearsBefore == 3
\* Years modelled after the first feed year.
YearsAfter == 2
\* Longest --feed-name string enumerated in SpecValid.
MaxNameLen == 5

(* ------------------------- program constants -------------------------- *)

\* range(1999, ...) in _write_all_feeds, year >= 1999 in _feed_name_is_valid
FirstYear == 1999
\* --xz-preset default
DefaultXzPreset == 9

(* ------------------------------ values -------------------------------- *)

None == <<>>
Some(v) == <<v>>
IsNone(o) == o = <<>>
Get(o) == o[1]

MinYear == FirstYear - YearsBefore
MaxYear == FirstYear + YearsAfter

\* The first and the last day of a year stand for the days of the year.
MonthDays == {<<1, 1>>, <<12, 31>>}

\* datetime.date
Dates ==
    {[year |-> y, month |-> md[1], day |-> md[2]] : y \in MinYear..MaxYear, md \in MonthDays}

\* datetime.datetime as click.DateTime(formats=["%Y-%m-%d"]) builds it:
\* strptime leaves the time of day at midnight.
DateTimes ==
    {[year |-> d.year, month |-> d.month, day |-> d.day, hour |-> 0, minute |-> 0] : d \in Dates}

\* datetime.datetime.date(): the calendar date, the time of day dropped.
DateOf(d) == [year |-> d.year, month |-> d.month, day |-> d.day]

\* The wall clock dates dt.date.today() may return: not before the first feed year.
Todays == {d \in Dates : d.year >= FirstYear}

Digits == <<"0", "1", "2", "3", "4", "5", "6", "7", "8", "9">>
DigitChars == {Digits[i] : i \in 1..10}
DigitVal(c) == (CHOOSE i \in 1..10 : Digits[i] = c) - 1
Whitespace == {" "}

\* str(int) for a non-negative int: its decimal digits, no sign, no padding.
RECURSIVE Str(_)
Str(n) == IF n < 10 THEN <<Digits[n + 1]>> ELSE Str(n \div 10) \o <<Digits[(n % 10) + 1]>>

\* str.strip() as int() applies it: leading and trailing whitespace removed.
RECURSIVE LStrip(_)
LStrip(s) == IF s # <<>> /\ Head(s) \in Whitespace THEN LStrip(Tail(s)) ELSE s
RECURSIVE RStrip(_)
RStrip(s) ==
    IF s # <<>> /\ s[Len(s)] \in Whitespace THEN RStrip(SubSeq(s, 1, Len(s) - 1)) ELSE s
Strip(s) == RStrip(LStrip(s))

\* The digits part of an int literal: digits, single underscores between digits only.
DigitsPartOk(s) ==
    /\ s # <<>>
    /\ \A i \in 1..Len(s) : s[i] \in DigitChars \cup {"_"}
    /\ s[1] # "_"
    /\ s[Len(s)] # "_"
    /\ \A i \in 1..(Len(s) - 1) : ~(s[i] = "_" /\ s[i + 1] = "_")

RECURSIVE DigitsValue(_)
DigitsValue(s) ==
    IF s = <<>> THEN 0
    ELSE IF s[Len(s)] = "_" THEN DigitsValue(SubSeq(s, 1, Len(s) - 1))
    ELSE 10 * DigitsValue(SubSeq(s, 1, Len(s) - 1)) + DigitVal(s[Len(s)])

\* int(name) for a str: ok = FALSE stands for ValueError.
ParseInt(name) ==
    LET t == Strip(name)
        signed == t # <<>> /\ Head(t) \in {"+", "-"}
        body == IF signed THEN Tail(t) ELSE t
    IN  IF DigitsPartOk(body)
        THEN [ok |-> TRUE,
              value |-> IF signed /\ Head(t) = "-" THEN 0 - DigitsValue(body)
                        ELSE DigitsValue(body)]
        ELSE [ok |-> FALSE, value |-> 0]

All == <<"a", "l", "l">>
Recent == <<"r", "e", "c", "e", "n", "t">>
Modified == <<"m", "o", "d", "i", "f", "i", "e", "d">>

\* _feed_name_is_valid(name)
_feed_name_is_valid(name) ==
    IF name \in {All, Recent, Modified} THEN TRUE
    ELSE LET year == ParseInt(name)
         IN  IF year.ok THEN year.value >= FirstYear ELSE FALSE


(* ------------------------------ inputs -------------------------------- *)

\* Every string over Alphabet of length at most n.
Alphabet == {"0", "1", "2", "9", " ", "+", "-", "_", "x"}
RECURSIVE Strings(_)
Strings(n) ==
    IF n = 0 THEN {<<>>}
    ELSE LET shorter == Strings(n - 1)
         IN  shorter \cup {Append(s, c) : s \in {t \in shorter : Len(t) = n - 1}, c \in Alphabet}

\* The --feed-name values cli is run with.
FeedNames ==
    {All, Recent, Modified, <<"A", "l", "l">>, <<>>}
        \cup {Str(y) : y \in (FirstYear - 1)..(MaxYear + 1)}
        \cup {<<"2", "9", "9", "9">>, <<"+", "1", "9", "9", "9">>, <<"1", "9", "_", "9", "9">>,
              <<"-", "1", "9", "9", "9">>, <<"9", "9">>, <<"2", "0", "x", "0">>}

\* The output path before the run: absent, an empty directory, or a directory
\* that holds entries.  (A path that is a file never reaches cli: click.Path
\* with file_okay=False rejects it.)
PathStates ==
    {[exists |-> FALSE, entries |-> {}],
     [exists |-> TRUE, entries |-> {}],
     [exists |-> TRUE, entries |-> {<<"README">>}],
     [exists |-> TRUE, entries |-> {<<"CVE-", "a", "l", "l", ".json.xz">>, <<"notes">>}]}

XzPresets == {DefaultXzPreset, 0}

(* ------------------------------- state -------------------------------- *)

VARIABLES
    date,          \* cli parameter: None or Some(datetime)
    fetch_opt,     \* whether --fetch was passed
    fetch,         \* cli's local `fetch`
    feed_name,     \* cli parameter: None or Some(str)
    xz_preset,     \* cli parameter
    today,         \* what dt.date.today() returns in this run
    path0,         \* the output path before the run
    path_exists,   \* path.exists()
    entries,       \* list(path.iterdir())
    pc,            \* the statement cli is at
    outcome,       \* how the run ended, "running" until then
    valid,         \* None or Some(result of _feed_name_is_valid)
    timestamp,     \* cli's local `timestamp`: None or Some(date)
    db,            \* cli's local `db`: None or Some(CveDatabase)
    year,          \* loop variable of _write_all_feeds
    calls          \* the calls made to the collaborators, in order

vars ==
    <<date, fetch_opt, fetch, feed_name, xz_preset, today, path0, path_exists, entries,
      pc, outcome, valid, timestamp, db, year, calls>>

inputs == <<date, fetch_opt, feed_name, xz_preset, today, path0>>

NoArgs == [ts |-> None, name |-> None, db |-> None, xz |-> None]
Call(op, args, ok) ==
    [op |-> op, ts |-> args.ts, name |-> args.name, db |-> args.db, xz |-> args.xz, ok |-> ok]

(* ------------------------- the collaborators -------------------------- *)

\* CveDatabase.from_timestamp(timestamp): the database exposes its timestamp.
from_timestamp(ts) == [timestamp |-> ts]

\* The archive file Feed.write names deterministically from the feed name.
ArchiveFile(name) == <<"CVE-">> \o name \o <<".json.xz">>

\* The directory after Feed.write(dest_dir, db, name, xz_preset): the archive
\* is there when the call returns; when it raises, the directory is as before
\* or holds the file the call was writing.
FeedWriteResults(dir, name, ok) ==
    IF ok THEN {dir \cup {ArchiveFile(name)}}
    ELSE {dir, dir \cup {ArchiveFile(name)}}

(* ---------------------------- cli, by line ---------------------------- *)

\* Mutant of line 60: the test of `date` inverted.
ImpliedFetchInverted(f, d) == f \/ ~IsNone(d)

\* line 60: fetch |= date is None
ImpliedFetch(f, d) == f \/ IsNone(d)

\* Mutant of line 61: a directory of one entry passes.
PathNotEmptyOffByOne(exists, dir) == exists /\ Cardinality(dir) > 1

\* Mutant of line 61: the check is dropped.
PathNotEmptyDropped(exists, dir) == FALSE

\* line 61: path.exists() and len(list(path.iterdir())) > 0
PathNotEmpty(exists, dir) == exists /\ Cardinality(dir) > 0

\* Mutant of line 66: the `not` before _feed_name_is_valid is missing.
FeedNameRejectedNoNot(fn) == ~IsNone(fn) /\ _feed_name_is_valid(Get(fn))

\* line 66: feed_name is not None and not _feed_name_is_valid(feed_name)
FeedNameRejected(fn) == ~IsNone(fn) /\ ~_feed_name_is_valid(Get(fn))

\* Mutant of lines 74-78: today's date whatever --date says.
TimestampOfToday(d, now) == now

\* lines 74-78: the snapshot date
TimestampOf(d, now) == IF IsNone(d) THEN now ELSE DateOf(Get(d))

\* Mutant of line 80: the sync is skipped.
AfterTimestampNoSync(f) == "checkout"

\* line 80: if fetch
AfterTimestamp(f) == IF f THEN "fetch" ELSE "checkout"

\* line 88: if feed_name is None
AfterLoad(fn) == IF IsNone(fn) THEN "write_all" ELSE "write_one"

\* Mutant: a failure is swallowed and the run goes on.
PcAfterSwallowed(ok, next) == next

\* An exception of a collaborator is caught nowhere: it ends the run.
PcAfter(ok, next) == IF ok THEN next ELSE "done"
OutcomeAfter(ok, next) ==
    IF ~ok THEN "failed" ELSE IF next = "done" THEN "success" ELSE "running"

\* Mutant of line 101: range(1999, db.timestamp.year).
YearInRangeExclusive(y, database) == y < database.timestamp.year

\* line 101: range(1999, db.timestamp.year + 1)
YearInRange(y, database) == y < database.timestamp.year + 1

\* Mutant of lines 110-130: "modified" written before "recent".
AggregateFeedsSwapped == <<All, Modified, Recent>>

\* lines 110-130: the feeds written after the years, in the order of the code
AggregateFeeds == <<All, Recent, Modified>>
\* where cli is before each of these writes
AggregatePcs == <<"write_all_feed", "write_recent_feed", "write_modified_feed">>

Init ==
    /\ date \in {None} \cup {Some(d) : d \in DateTimes}
    /\ fetch_opt \in BOOLEAN
    /\ fetch = fetch_opt
    /\ feed_name \in {None} \cup {Some(n) : n \in FeedNames}
    /\ xz_preset \in XzPresets
    /\ today \in Todays
    /\ path0 \in PathStates
    /\ path_exists = path0.exists
    /\ entries = path0.entries
    /\ pc = "start"
    /\ outcome = "running"
    /\ valid = None
    /\ timestamp = None
    /\ db = None
    /\ year = 0
    /\ calls = <<>>

\* line 60
Start ==
    /\ pc = "start"
    /\ fetch' = ImpliedFetch(fetch, date)
    /\ pc' = "check_path"
    /\ UNCHANGED <<inputs, path_exists, entries, outcome, valid, timestamp, db, year, calls>>

\* lines 61-64
CheckPath ==
    /\ pc = "check_path"
    /\ IF PathNotEmpty(path_exists, entries)
       THEN pc' = "done" /\ outcome' = "usage_path"
       ELSE pc' = "check_feed_name" /\ outcome' = outcome
    /\ UNCHANGED <<inputs, fetch, path_exists, entries, valid, timestamp, db, year, calls>>

\* lines 66-70
CheckFeedName ==
    /\ pc = "check_feed_name"
    /\ valid' = IF IsNone(feed_name) THEN None ELSE Some(_feed_name_is_valid(Get(feed_name)))
    /\ IF FeedNameRejected(feed_name)
       THEN pc' = "done" /\ outcome' = "usage_feed_name"
       ELSE pc' = "mkdir" /\ outcome' = outcome
    /\ UNCHANGED <<inputs, fetch, path_exists, entries, timestamp, db, year, calls>>

\* line 72: path.mkdir(exist_ok=True); creating an absent directory may fail
Mkdir ==
    /\ pc = "mkdir"
    /\ \E ok \in BOOLEAN :
        /\ ok \/ ~path_exists
        /\ calls' = Append(calls, Call("mkdir", NoArgs, ok))
        /\ path_exists' = (path_exists \/ ok)
        /\ pc' = PcAfter(ok, "timestamp")
        /\ outcome' = OutcomeAfter(ok, "timestamp")
    /\ UNCHANGED <<inputs, fetch, entries, valid, timestamp, db, year>>

\* lines 74-78
Timestamp ==
    /\ pc = "timestamp"
    /\ timestamp' = Some(TimestampOf(date, today))
    /\ pc' = AfterTimestamp(fetch)
    /\ UNCHANGED <<inputs, fetch, path_exists, entries, outcome, valid, db, year, calls>>

\* lines 80-82
Fetch ==
    /\ pc = "fetch"
    /\ \E ok \in BOOLEAN :
        /\ calls' = Append(calls, Call("fetch", NoArgs, ok))
        /\ pc' = PcAfter(ok, "checkout")
        /\ outcome' = OutcomeAfter(ok, "checkout")
    /\ UNCHANGED <<inputs, fetch, path_exists, entries, valid, timestamp, db, year>>

\* lines 84-85
Checkout ==
    /\ pc = "checkout"
    /\ \E ok \in BOOLEAN :
        /\ calls' = Append(calls, Call("checkout", [NoArgs EXCEPT !.ts = timestamp], ok))
        /\ pc' = PcAfter(ok, "load")
        /\ outcome' = OutcomeAfter(ok, "load")
    /\ UNCHANGED <<inputs, fetch, path_exists, entries, valid, timestamp, db, year>>

\* lines 86-88
Load ==
    /\ pc = "load"
    /\ \E ok \in BOOLEAN :
        /\ calls' = Append(calls, Call("from_timestamp", [NoArgs EXCEPT !.ts = timestamp], ok))
        /\ db' = IF ok THEN Some(from_timestamp(Get(timestamp))) ELSE db
        /\ pc' = PcAfter(ok, AfterLoad(feed_name))
        /\ outcome' = OutcomeAfter(ok, AfterLoad(feed_name))
    /\ UNCHANGED <<inputs, fetch, path_exists, entries, valid, timestamp, year>>

\* Feed.write(dest_dir=path, db=db, name=name, xz_preset=xz_preset), then `next`
FeedWrite(name, next) ==
    \E ok \in BOOLEAN :
        /\ calls' = Append(calls,
                Call("write", [ts |-> None, name |-> Some(name), db |-> db,
                               xz |-> Some(xz_preset)], ok))
        /\ entries' \in FeedWriteResults(entries, name, ok)
        /\ pc' = PcAfter(ok, next)
        /\ outcome' = OutcomeAfter(ok, next)

\* lines 90-97
WriteOne ==
    /\ pc = "write_one"
    /\ FeedWrite(Get(feed_name), "done")
    /\ UNCHANGED <<inputs, fetch, path_exists, valid, timestamp, db, year>>

\* lines 89, 100-101: _write_all_feeds is entered, the loop starts at 1999
WriteAllFeeds ==
    /\ pc = "write_all"
    /\ year' = FirstYear
    /\ pc' = "years"
    /\ UNCHANGED <<inputs, fetch, path_exists, entries, outcome, valid, timestamp, db, calls>>

\* lines 101-108: one iteration of the loop
WriteYear ==
    /\ pc = "years"
    /\ YearInRange(year, Get(db))
    /\ FeedWrite(Str(year), "years")
    /\ year' = year + 1
    /\ UNCHANGED <<inputs, fetch, path_exists, valid, timestamp, db>>

\* line 101: the range is exhausted
YearsDone ==
    /\ pc = "years"
    /\ ~YearInRange(year, Get(db))
    /\ pc' = AggregatePcs[1]
    /\ UNCHANGED <<inputs, fetch, path_exists, entries, outcome, valid, timestamp, db, year, calls>>

\* lines 110-130: "all", "recent", "modified"
WriteAggregate ==
    /\ \E i \in 1..Len(AggregateFeeds) :
        /\ pc = AggregatePcs[i]
        /\ FeedWrite(AggregateFeeds[i],
                     IF i < Len(AggregateFeeds) THEN AggregatePcs[i + 1] ELSE "done")
    /\ UNCHANGED <<inputs, fetch, path_exists, valid, timestamp, db, year>>

Next ==
    \/ Start
    \/ CheckPath
    \/ CheckFeedName
    \/ Mkdir
    \/ Timestamp
    \/ Fetch
    \/ Checkout
    \/ Load
    \/ WriteOne
    \/ WriteAllFeeds
    \/ WriteYear
    \/ YearsDone
    \/ WriteAggregate

Spec == Init /\ [][Next]_vars

(* --------------- _feed_name_is_valid as a pure function --------------- *)

\* Every --feed-name string up to MaxNameLen, with the current date.
InitValid ==
    /\ feed_name \in {Some(n) : n \in Strings(MaxNameLen) \cup FeedNames}
    /\ today \in Todays
    /\ date = None
    /\ fetch_opt = FALSE
    /\ fetch = FALSE
    /\ xz_preset = DefaultXzPreset
    /\ path0 = [exists |-> FALSE, entries |-> {}]
    /\ path_exists = FALSE
    /\ entries = {}
    /\ pc = "validate"
    /\ outcome = "running"
    /\ valid = None
    /\ timestamp = None
    /\ db = None
    /\ year = 0
    /\ calls = <<>>

\* lines 133-141
Validate ==
    /\ pc = "validate"
    /\ valid' = Some(_feed_name_is_valid(Get(feed_name)))
    /\ pc' = "validated"
    /\ UNCHANGED <<inputs, fetch, path_exists, entries, outcome, timestamp, db, year, calls>>

NextValid == Validate

SpecValid == InitValid /\ [][NextValid]_vars

(* ------------------------------ history ------------------------------- *)

CallIdx(op) == {i \in 1..Len(calls) : calls[i].op = op}
WriteCalls == SelectSeq(calls, LAMBDA c : c.op = "write")
WriteNames == [i \in 1..Len(WriteCalls) |-> Get(WriteCalls[i].name)]
CompletedFiles == {ArchiveFile(Get(calls[i].name)) : i \in {j \in CallIdx("write") : calls[j].ok}}
CalledFiles == {ArchiveFile(Get(calls[i].name)) : i \in CallIdx("write")}
IsPrefix(s, t) == Len(s) <= Len(t) /\ \A i \in 1..Len(s) : s[i] = t[i]
Max(a, b) == IF a > b THEN a ELSE b

\* The output path held entries before the run.
NonEmptyBefore == path0.exists /\ path0.entries # {}
\* The directory check of lines 61-64 is behind the run.
PassedDirCheck == pc \notin {"start", "check_path", "validate", "validated"} /\ outcome # "usage_path"
\* --fetch was passed or --date was not.
SyncRequested == fetch_opt \/ IsNone(date)

(* ------------------------------ claims -------------------------------- *)

\* C1: when the output path exists and holds at least one entry, the run
\* ends with the usage error of line 62 and makes no call at all (no mkdir,
\* fetch, checkout, from_timestamp or write), whatever --date, --fetch and
\* --feed-name are; the directory is as it was.
C1_NonEmptyDirAborts ==
    NonEmptyBefore =>
        /\ calls = <<>>
        /\ entries = path0.entries
        /\ path_exists = path0.exists
        /\ pc \in {"start", "check_path", "done"}
        /\ (pc = "done" <=> outcome = "usage_path")
        /\ (pc # "done" => outcome = "running")

C1_Witness ==
    /\ NonEmptyBefore
    /\ pc = "done"
    /\ outcome = "usage_path"
    /\ ~IsNone(date)
    /\ fetch_opt
    /\ feed_name = Some(All)

\* The --feed-name vocabulary of the specification: "all", "recent",
\* "modified", or four digits naming a year from 1999 through the current year.
InVocabulary(name, currentYear) ==
    \/ name \in {<<"a", "l", "l">>, <<"r", "e", "c", "e", "n", "t">>,
                 <<"m", "o", "d", "i", "f", "i", "e", "d">>}
    \/ /\ Len(name) = 4
       /\ \A i \in 1..4 : name[i] \in DigitChars
       /\ DigitsValue(name) >= 1999
       /\ DigitsValue(name) <= currentYear

\* C2: validation accepts a string exactly when it is in the vocabulary.
C2_ValidIffInVocabulary ==
    ~IsNone(valid) => (Get(valid) <=> InVocabulary(Get(feed_name), today.year))

\* C3: a --feed-name that fails validation ends the run with the usage error
\* of line 67 (the output path being absent or empty) and no call is made: the
\* directory is not created, nothing is fetched, checked out, loaded or written.
C3_InvalidFeedNameAborts ==
    (~IsNone(feed_name) /\ ~_feed_name_is_valid(Get(feed_name))) =>
        /\ calls = <<>>
        /\ entries = path0.entries
        /\ path_exists = path0.exists
        /\ pc \in {"start", "check_path", "check_feed_name", "done"}
        /\ (pc = "done" => outcome = IF NonEmptyBefore THEN "usage_path" ELSE "usage_feed_name")
        /\ (pc # "done" => outcome = "running")

C3_Witness ==
    /\ pc = "done"
    /\ outcome = "usage_feed_name"
    /\ ~path0.exists
    /\ ~path_exists
    /\ IsNone(date)
    /\ feed_name = Some(Str(FirstYear - 1))

\* The calendar date of --date.
GivenDate == [year |-> Get(date).year, month |-> Get(date).month, day |-> Get(date).day]

\* C4: with --date D and without --fetch, repo.fetch is never called, and
\* repo.checkout and CveDatabase.from_timestamp are called with D (once each
\* in a run that succeeds).
C4_DateWithoutFetch ==
    (~IsNone(date) /\ ~fetch_opt) =>
        /\ CallIdx("fetch") = {}
        /\ \A i \in CallIdx("checkout") \cup CallIdx("from_timestamp") :
                calls[i].ts = Some(GivenDate)
        /\ (pc \in {"load", "write_one", "write_all", "years"} \/ outcome = "success") =>
                Cardinality(CallIdx("checkout")) = 1
        /\ (pc \in {"write_one", "write_all", "years"} \/ outcome = "success") =>
                Cardinality(CallIdx("from_timestamp")) = 1

C4_Witness ==
    /\ ~IsNone(date)
    /\ ~fetch_opt
    /\ outcome = "success"
    /\ GivenDate # today
    /\ CallIdx("fetch") = {}
    /\ \E i \in CallIdx("checkout") : calls[i].ts = Some(GivenDate)

\* C5: without --date, with or without --fetch, repo.fetch is called once and
\* has returned before repo.checkout is called, and repo.checkout and
\* CveDatabase.from_timestamp are called with today's date.
C5_NoDateFetchesToday ==
    IsNone(date) =>
        /\ Cardinality(CallIdx("fetch")) <= 1
        /\ \A i \in CallIdx("checkout") :
                \E j \in CallIdx("fetch") : j < i /\ calls[j].ok
        /\ (pc \in {"checkout", "load"} \/ outcome = "success") =>
                Cardinality(CallIdx("fetch")) = 1
        /\ \A i \in CallIdx("checkout") \cup CallIdx("from_timestamp") :
                calls[i].ts = Some(today)
        /\ outcome = "success" =>
                CallIdx("checkout") # {} /\ CallIdx("from_timestamp") # {}

C5_Witness ==
    /\ IsNone(date)
    /\ ~fetch_opt
    /\ outcome = "success"
    /\ Cardinality(CallIdx("fetch")) = 1
    /\ \E i \in CallIdx("checkout") : calls[i].ts = Some(today)

\* The archives of a run for all feeds at snapshot year y.
AllArchives(y) ==
    {ArchiveFile(Str(k)) : k \in 1999..y}
        \cup {ArchiveFile(<<"a", "l", "l">>), ArchiveFile(<<"r", "e", "c", "e", "n", "t">>),
              ArchiveFile(<<"m", "o", "d", "i", "f", "i", "e", "d">>)}

\* C6 as stated: a successful run without --feed-name at snapshot year Y
\* leaves exactly (Y - 1999 + 1) + 3 archive files.
C6_CountAsStated ==
    (IsNone(feed_name) /\ outcome = "success") =>
        Cardinality(entries) = (Get(timestamp).year - 1999 + 1) + 3

\* C6 amended: a successful run without --feed-name at snapshot year Y leaves
\* exactly max(Y - 1999 + 1, 0) + 3 archive files: one per year from 1999
\* through Y (none when Y is before 1999), and "all", "recent", "modified".
C6_CountAmended ==
    (IsNone(feed_name) /\ outcome = "success") =>
        /\ Cardinality(entries) = Max(Get(timestamp).year - 1999 + 1, 0) + 3
        /\ entries = AllArchives(Get(timestamp).year)

C6_Witness ==
    /\ IsNone(feed_name)
    /\ outcome = "success"
    /\ Get(timestamp).year > 1999
    /\ Cardinality(entries) = Get(timestamp).year - 1999 + 4

\* The feed names of a run for all feeds at snapshot year y, in order.
AllFeedNames(y) ==
    [i \in 1..Max(y - 1999 + 1, 0) |-> Str(1999 + i - 1)]
        \o << <<"a", "l", "l">>, <<"r", "e", "c", "e", "n", "t">>,
              <<"m", "o", "d", "i", "f", "i", "e", "d">> >>

\* C7: without --feed-name the Feed.write calls are, in this order, the
\* years 1999 .. timestamp year, then "all", "recent", "modified", each once
\* (a run that stops early has made a prefix of them); with a valid
\* --feed-name N there is one Feed.write, of N.
C7_WriteSequence ==
    /\ (IsNone(feed_name) /\ WriteCalls # <<>>) =>
            IsPrefix(WriteNames, AllFeedNames(Get(timestamp).year))
    /\ (IsNone(feed_name) /\ outcome = "success") =>
            WriteNames = AllFeedNames(Get(timestamp).year)
    /\ ~IsNone(feed_name) => IsPrefix(WriteNames, <<Get(feed_name)>>)
    /\ (~IsNone(feed_name) /\ outcome = "success") => WriteNames = <<Get(feed_name)>>

C7_Witness ==
    /\ IsNone(feed_name)
    /\ outcome = "success"
    /\ Len(WriteNames) = 5
    /\ WriteNames[1] = <<"1", "9", "9", "9">>
    /\ WriteNames[5] = <<"m", "o", "d", "i", "f", "i", "e", "d">>

\* C8 as stated: once the directory check is passed, the files of the output
\* directory are those of the feeds whose Feed.write has completed, also
\* after a failure.
C8_FilesAreCompletedWrites ==
    PassedDirCheck => entries = CompletedFiles

\* C8 amended: once the directory check is passed, the output directory
\* holds the archive of every feed whose Feed.write has completed and nothing
\* but archives of feeds whose Feed.write was called; the two agree as long
\* as no Feed.write has failed (a failed Feed.write may leave its file, and
\* cli removes nothing).
C8_FilesAmended ==
    PassedDirCheck =>
        /\ CompletedFiles \subseteq entries
        /\ entries \subseteq CalledFiles
        /\ (\A i \in CallIdx("write") : calls[i].ok) => entries = CompletedFiles

C8_Witness ==
    /\ PassedDirCheck
    /\ outcome = "failed"
    /\ Cardinality(CompletedFiles) = 2
    /\ Cardinality(entries) = 3

\* C9: fetch, checkout and load happen at most once each and in this order:
\* checkout is not called before fetch has returned when a sync is requested
\* (and fetch is not called otherwise), from_timestamp not before checkout has
\* returned, Feed.write not before from_timestamp has returned, and every
\* Feed.write gets the database that from_timestamp returned.
C9_StageOrder ==
    /\ \A op \in {"mkdir", "fetch", "checkout", "from_timestamp"} : Cardinality(CallIdx(op)) <= 1
    /\ (~SyncRequested) => CallIdx("fetch") = {}
    /\ \A i \in CallIdx("fetch") : \E j \in CallIdx("mkdir") : j < i /\ calls[j].ok
    /\ \A i \in CallIdx("checkout") :
            /\ SyncRequested => \E j \in CallIdx("fetch") : j < i /\ calls[j].ok
            /\ \A j \in CallIdx("fetch") : j < i
    /\ \A i \in CallIdx("from_timestamp") :
            \E j \in CallIdx("checkout") : j < i /\ calls[j].ok /\ calls[j].ts = calls[i].ts
    /\ \A i \in CallIdx("write") :
            /\ \E j \in CallIdx("from_timestamp") :
                    /\ j < i
                    /\ calls[j].ok
                    /\ calls[i].db = Some([timestamp |-> Get(calls[j].ts)])
            /\ calls[i].db = db
            /\ calls[i].xz = Some(xz_preset)

C9_Witness ==
    /\ SyncRequested
    /\ ~IsNone(date)
    /\ outcome = "success"
    /\ IsNone(feed_name)
    /\ Len(calls) > 6
    /\ calls[2].op = "fetch"
    /\ calls[3].op = "checkout"
    /\ calls[4].op = "from_timestamp"

\* C10: a call that fails is the last call of the run: nothing is retried,
\* no later stage and no later Feed.write is called, and the run has ended,
\* as a failure; a run that ends as a success has no failed call.
C10_FailureAborts ==
    /\ \A i \in 1..Len(calls) :
            ~calls[i].ok => (i = Len(calls) /\ pc = "done" /\ outcome = "failed")
    /\ outcome = "failed" => (calls # <<>> /\ ~calls[Len(calls)].ok /\ pc = "done")
    /\ outcome = "success" => \A i \in 1..Len(calls) : calls[i].ok

C10_Witness ==
    /\ outcome = "failed"
    /\ pc = "done"
    /\ Len(WriteCalls) = 3
    /\ ~calls[Len(calls)].ok
    /\ calls[Len(calls)].op = "write"

====
